---- MODULE Spec2Model ----
(***************************************************************************)
(* A model of the RPC multiplexer of src/mg_rpc/mg_rpc.c: the channel      *)
(* registry, the send queue, the pending-request table, the handler table  *)
(* and the channel event handler.                                          *)
(*                                                                         *)
(* Strings are modelled by TLA+ strings, "" being the empty mg_str.  A     *)
(* channel object (a struct mg_rpc_channel) is a number in 1..MaxCh, NULL  *)
(* is NoCh; a channel entry (a struct mg_rpc_channel_info_internal) is     *)
(* named by the channel object it holds, which is unique in the registry.  *)
(* SLISTs are sequences whose head is element 1.  The event loop is single *)
(* threaded, so each public call and each channel event is one action.     *)
(*                                                                         *)
(* The transport, the result callbacks, the method handlers and the        *)
(* observers are the environment: what the transport answers when the code *)
(* calls it (send_frame, is_persistent, is_broadcast_enabled) and whether  *)
(* mg_rpc_channel_ws_out succeeds are inputs of the actions.  Not          *)
(* modelled: the tag, key, auth and args fields of a frame (they are       *)
(* copied through and decide nothing), opts->src (always empty here), and  *)
(* a NULL opts pointer, which mg_rpc_vcallf dereferences.                  *)
(***************************************************************************)
EXTENDS Integers, Sequences, FiniteSets, TLC

(* ------------------------------ bounds -------------------------------- *)

\* channel objects that can exist at one time
MaxCh == 2
\* the largest configured cfg->max_queue_length
MaxQueueLength == 2
\* outgoing frames (calls, responses, errors) submitted in one run
MaxFrames == 3
\* rand() returns a value in 0..MaxRand
MaxRand == 1
\* request infos a handler may hold before answering
MaxRi == 1
\* handlers registered by mg_rpc_add_handler
MaxHandlers == 1
\* observers registered by mg_rpc_add_observer
MaxObservers == 2
\* handlers registered where several may share a method name
MaxSameMethod == 2

(* ------------------------------ strings ------------------------------- *)

NoCh == 0
Chans == 1..MaxCh

\* cfg->id and the alias mg_rpc_add_local_id may add
CfgId == "dev"
AliasId == "alias"

\* the destinations a caller passes to mg_rpc_callf
CallDsts == {"", "peer", "ws://h", "ws://h/", "mqtt://h"}
\* the destinations a channel is registered under by mg_rpc_add_channel
AddDsts == {"", "peer", "*"}
\* the fields of an inbound frame
InSrcs == {"", "peer", "peer2"}
InDsts == {"", "dev", "alias", "other"}
InMethods == {"M", "Nope"}
\* an id no call has used
UnknownId == 0 - 1
\* a raw frame in which json_scanf recognises no field
Garbage == "garbage"

MG_RPC_DST_DEFAULT == "*"

\* mg_parse_uri (mongoose): whether the string parses as a URI, and its scheme
mg_parse_uri(d) ==
  CASE d \in {"ws://h", "ws://h/"} -> [ok |-> TRUE, scheme |-> "ws"]
    [] d = "mqtt://h" -> [ok |-> TRUE, scheme |-> "mqtt"]
    [] OTHER -> [ok |-> FALSE, scheme |-> ""]

\* mg_assemble_uri with normalize_path = 1 and no fragment
canonicalize_dst_uri(d) ==
  CASE d \in {"ws://h", "ws://h/"} -> "ws://h/"
    [] d = "mqtt://h" -> "mqtt://h/"
    [] OTHER -> d

\* a faulty variant of dst_is_equal: URIs are compared byte for byte
DstIsEqualBytes(d1, d2) == d1 = d2

dst_is_equal(d1, d2) ==
  LET iu1 == mg_parse_uri(d1).ok
      iu2 == mg_parse_uri(d2).ok
  IN  IF ~iu1 /\ ~iu2 THEN d1 = d2
      ELSE IF iu1 /\ iu2 THEN canonicalize_dst_uri(d1) = canonicalize_dst_uri(d2)
      ELSE FALSE

(* ------------------------------ helpers ------------------------------- *)

RemoveAt(s, i) == SubSeq(s, 1, i - 1) \o SubSeq(s, i + 1, Len(s))

Min(S) == CHOOSE x \in S : \A y \in S : x <= y
Max(S) == CHOOSE x \in S : \A y \in S : y <= x

(* ------------------------------- state -------------------------------- *)

VARIABLES
  pool,             \* the channel objects the transports can allocate
  max_queue_length, \* cfg->max_queue_length
  next_id,          \* mg_rpc.next_id
  queue_len,        \* mg_rpc.queue_len
  local_ids,        \* mg_rpc.local_ids, the NUL separated ids as a sequence
  prehandler,       \* whether mg_rpc.prehandler is set
  handlers,         \* mg_rpc.handlers
  channels,         \* mg_rpc.channels
  requests,         \* mg_rpc.requests
  observers,        \* mg_rpc.observers (how many are registered)
  queue,            \* mg_rpc.queue
  ris,              \* the request infos handed to handlers and not yet answered
  inflight,         \* per channel object: frames accepted by send_frame minus FRAME_SENT events
  calls,            \* per call of mg_rpc_callf, in call order: its id, callback and history
  nframes,          \* outgoing frames submitted so far
  last              \* what the last operation did

vars == <<pool, max_queue_length, next_id, queue_len, local_ids, prehandler, handlers,
          channels, requests, observers, queue, ris, inflight, calls, nframes, last>>

\* The part of the state that a call touches, with the record of the transport
\* calls (sends, connects), of the enqueues and of the destination resolutions
\* (resolved) made during the current operation.
Machine ==
  [channels |-> channels, queue |-> queue, queue_len |-> queue_len,
   requests |-> requests, next_id |-> next_id,
   inflight |-> inflight, calls |-> calls, nframes |-> nframes,
   sends |-> <<>>, connects |-> {}, enq |-> <<>>, resolved |-> <<>>]

\* index in the registry of the entry holding channel object ch, 0 if none
mg_rpc_get_channel_info_internal(chs, ch) ==
  LET hit == {i \in 1..Len(chs) : chs[i].ch = ch}
  IN  IF hit = {} THEN 0 ELSE Min(hit)

Registered(chs) == {chs[i].ch : i \in 1..Len(chs)}

EntryOf(chs, ch) == chs[mg_rpc_get_channel_info_internal(chs, ch)]

mg_rpc_add_channel_internal(chs, dst, ch) ==
  <<[ch |-> ch, dst |-> dst, is_open |-> FALSE, is_busy |-> FALSE]>> \o chs

(* ------------------------ destination resolution ---------------------- *)

\* a faulty variant of IsDialScheme: every scheme opens a channel
IsDialSchemeAny(scheme) == TRUE

\* the schemes that open an outgoing channel
IsDialScheme(scheme) == scheme \in {"ws", "wss", "http", "https"}

\* a faulty variant of ScanChannels: an empty destination is compared too
ScanChannelsEmptyToo(chs, dst, is_uri) ==
  LET hits == {i \in 1..Len(chs) : dst_is_equal(dst, chs[i].dst)}
      defs == {i \in 1..Len(chs) : chs[i].dst = MG_RPC_DST_DEFAULT}
  IN  IF hits # {} THEN chs[Min(hits)].ch
      ELSE IF is_uri \/ defs = {} THEN NoCh
      ELSE chs[Max(defs)].ch

\* The scan of the registry: the entry the destination resolves to without
\* dialing, NoCh if none.  The scan stops at the first equal destination; with
\* none, default_ch is the last entry of the list registered under the default.
ScanChannels(chs, dst, is_uri) ==
  LET hits == {i \in 1..Len(chs) : dst # "" /\ dst_is_equal(dst, chs[i].dst)}
      defs == {i \in 1..Len(chs) : chs[i].dst = MG_RPC_DST_DEFAULT}
  IN  IF hits # {} THEN chs[Min(hits)].ch
      ELSE IF is_uri \/ defs = {} THEN NoCh
      ELSE chs[Max(defs)].ch

\* the registry as a resolution sees it: the channel and the destination of
\* each entry, in list order
RegistryView(chs) == [i \in 1..Len(chs) |-> [ch |-> chs[i].ch, dst |-> chs[i].dst]]

\* the record of one resolution: the destination given and whether it is a
\* URI, the registry before, the entry returned and the dial: "none" if
\* mg_rpc_channel_ws_out was not called, "made" if it returned a channel,
\* "failed" if it returned NULL
Resolution(chs, dst, is_uri, ci, dial) ==
  [dst |-> dst, is_uri |-> is_uri, reg |-> RegistryView(chs), ci |-> ci,
   dial |-> dial]

\* m: the machine; dst: the destination; chOk: whether mg_rpc_channel_ws_out
\* returns a channel.  Gives the machine, the entry (NoCh for NULL) and the
\* destination as the caller sees it afterwards.
mg_rpc_get_channel_info_internal_by_dst(m, dst, chOk) ==
  LET chs == m.channels
      p == mg_parse_uri(dst)
      is_uri == dst # "" /\ p.ok /\ p.scheme # ""
      found == ScanChannels(chs, dst, is_uri)
      final == IF is_uri THEN "" ELSE dst
      free == pool \ Registered(chs)
  IN  IF found # NoCh \/ ~is_uri \/ ~IsDialScheme(p.scheme)
      THEN [m |-> [m EXCEPT !.resolved =
                              Append(@, Resolution(chs, dst, is_uri, found, "none"))],
            ci |-> found, dst |-> final]
      ELSE IF ~chOk \/ free = {}
      THEN [m |-> [m EXCEPT !.resolved =
                              Append(@, Resolution(chs, dst, is_uri, NoCh, "failed"))],
            ci |-> NoCh, dst |-> final]
      ELSE LET ch == Min(free)
           IN  [m |-> [m EXCEPT
                         !.channels = mg_rpc_add_channel_internal(
                                        chs, canonicalize_dst_uri(dst), ch),
                         !.connects = @ \cup {ch},
                         !.resolved =
                           Append(@, Resolution(chs, dst, is_uri, ch, "made"))],
                ci |-> ch, dst |-> final]

(* --------------------------- sending, queueing ------------------------ *)

\* a faulty variant of CanSend: a closed channel is sent to
CanSendWhenClosed(e) == ~e.is_busy

\* a faulty variant of CanSend: a busy channel is sent to
CanSendWhenBusy(e) == e.is_open

\* the gate of mg_rpc_send_frame on a registered entry
CanSend(e) == e.is_open /\ ~e.is_busy

\* ok: the answer of the transport's send_frame, should it be called
mg_rpc_send_frame(m, ci, f, ok) ==
  LET i == mg_rpc_get_channel_info_internal(m.channels, ci)
  IN  IF ci = NoCh \/ i = 0 THEN [m |-> m, result |-> FALSE]
      ELSE IF ~CanSend(m.channels[i]) THEN [m |-> m, result |-> FALSE]
      ELSE [m |-> [m EXCEPT
                     !.sends = Append(@, [ch |-> ci, n |-> f.n, f |-> f, ok |-> ok]),
                     !.channels[i].is_busy = IF ok THEN TRUE ELSE @,
                     !.inflight[ci] = IF ok THEN @ + 1 ELSE @],
            result |-> ok]

\* a faulty variant of QueueFull: the bound checked one entry too late
QueueFullOffByOne(qlen, maxlen) == qlen > maxlen

\* the test of mg_rpc_enqueue_frame for a full queue
QueueFull(qlen, maxlen) == qlen >= maxlen

mg_rpc_enqueue_frame(m, ci, dst, f) ==
  IF QueueFull(m.queue_len, max_queue_length) THEN [m |-> m, result |-> FALSE]
  ELSE [m |-> [m EXCEPT
                 !.queue = Append(@, [dst |-> dst, frame |-> f, ci |-> ci]),
                 !.queue_len = @ + 1,
                 !.enq = Append(@, f.n)],
        result |-> TRUE]

\* mg_rpc_dispatch_frame after the direct send s: the frame f goes on the queue
\* if the send failed and the caller allows it
SendOrEnqueue(s, ci, dst, f, enqueue) ==
  IF s.result THEN [m |-> s.m, result |-> TRUE]
  ELSE IF enqueue THEN mg_rpc_enqueue_frame(s.m, ci, dst, f)
  ELSE [m |-> s.m, result |-> FALSE]

\* mg_rpc_dispatch_frame once the entry is resolved (r): the frame is built
\* with the destination left by the resolution and with cfg->id as src if the
\* caller gave none, and sent directly
DispatchTo(r, fr, enqueue, ok) ==
  LET f == [fr EXCEPT !.dst = r.dst,
                      !.src = IF fr.src # "" THEN fr.src ELSE local_ids[1]]
  IN  SendOrEnqueue(mg_rpc_send_frame(r.m, r.ci, f, ok), r.ci, fr.dst, f, enqueue)

\* fr: the frame to emit, fr.dst being the destination the caller gave;
\* ci: the entry the caller pinned, NoCh for NULL.  The one input ok serves
\* the dial and the send: a channel that was just dialed is not open, so the
\* transport is not asked.
mg_rpc_dispatch_frame(m, fr, ci, enqueue, ok) ==
  DispatchTo(IF ci = NoCh
             THEN mg_rpc_get_channel_info_internal_by_dst(m, fr.dst, ok)
             ELSE [m |-> m, ci |-> ci, dst |-> fr.dst],
             fr, enqueue, ok)

\* a faulty variant of mg_rpc_remove_queue_entry: the counter is not decremented
RemoveQueueEntryKeepLen(m, i) == [m EXCEPT !.queue = RemoveAt(@, i)]

mg_rpc_remove_queue_entry(m, i) ==
  [m EXCEPT !.queue = RemoveAt(@, i), !.queue_len = @ - 1]

Acc(acc, k) == IF k \in DOMAIN acc THEN acc[k] ELSE TRUE

\* The walk of mg_rpc_process_queue from the i-th entry of the queue, which was
\* the k-th entry when the walk began; acc[k] is the input of that entry.
RECURSIVE ProcessQueueFrom(_, _, _, _)

\* a faulty variant of DrainSent: the walk ends at the first entry not sent
DrainStopAtFailure(s, i, k, acc) ==
  IF s.result
  THEN ProcessQueueFrom(mg_rpc_remove_queue_entry(s.m, i), i, k + 1, acc)
  ELSE s.m

\* after the send s of the i-th entry: a sent entry is removed
DrainSent(s, i, k, acc) ==
  IF s.result
  THEN ProcessQueueFrom(mg_rpc_remove_queue_entry(s.m, i), i, k + 1, acc)
  ELSE ProcessQueueFrom(s.m, i + 1, k + 1, acc)

\* the i-th entry once its channel entry is resolved (r)
DrainTo(r, f, i, k, acc) ==
  DrainSent(mg_rpc_send_frame(r.m, r.ci, f, Acc(acc, k)), i, k, acc)

ProcessQueueFrom(m, i, k, acc) ==
  IF i > Len(m.queue) THEN m
  ELSE DrainTo(IF m.queue[i].ci = NoCh
               THEN mg_rpc_get_channel_info_internal_by_dst(
                      m, m.queue[i].dst, Acc(acc, k))
               ELSE [m |-> m, ci |-> m.queue[i].ci, dst |-> m.queue[i].dst],
               m.queue[i].frame, i, k, acc)

mg_rpc_process_queue(m, acc) == ProcessQueueFrom(m, 1, 1, acc)

(* -------------------------------- calls -------------------------------- *)

\* the id of the next call: c->next_id += rand(), r being what rand() returns
mg_rpc_get_id(nid, r) == nid + r

\* what mg_rpc_vcallf returns: result is whether a frame was sent or queued,
\* cbNull whether no sent-request record (ri) was allocated
CallfReturn(result, cbNull) == result /\ ~cbNull

\* The loop over the channels of a broadcast call, from the i-th entry.
\* en: the channels whose is_broadcast_enabled is set and answers true.
RECURSIVE BroadcastFrom(_, _, _, _, _, _)

\* after the dispatch d to the i-th entry
BroadcastNext(d, fr, i, en, acc, result) ==
  BroadcastFrom(d.m, fr, i + 1, en, acc, result \/ d.result)

BroadcastFrom(m, fr, i, en, acc, result) ==
  IF i > Len(m.channels) THEN [m |-> m, result |-> result]
  ELSE IF m.channels[i].ch \notin en THEN BroadcastFrom(m, fr, i + 1, en, acc, result)
  ELSE BroadcastNext(mg_rpc_dispatch_frame(m, fr, m.channels[i].ch, FALSE,
                                           Acc(acc, m.channels[i].ch)),
                     fr, i, en, acc, result)

\* the end of mg_rpc_vcallf, res being the outcome of the dispatch: the
\* sent-request record goes in the pending table if a frame was sent or queued
\* and a callback was given
CallfEnd(res, id, n, cbNull) ==
  [m |-> [res.m EXCEPT
            !.requests = IF res.result /\ ~cbNull
                         THEN <<[id |-> id, cb |-> n]>> \o @ ELSE @,
            !.calls = Append(@, [id |-> id, cbNull |-> cbNull, n |-> n])],
   ret |-> CallfReturn(res.result, cbNull), result |-> res.result]

\* o: the options and the inputs of the call:
\*   cbNull, dst, broadcast, no_queue, r (rand), ok (the transport's or the
\*   dialer's answer), en and acc (the channels' answers to a broadcast)
mg_rpc_vcallf(m, o) ==
  LET id == mg_rpc_get_id(m.next_id, o.r)
      fr == [n |-> m.nframes + 1, id |-> id, src |-> CfgId, dst |-> o.dst,
             kind |-> "method", nr |-> o.cbNull, code |-> 0]
      m1 == [m EXCEPT !.next_id = id, !.nframes = @ + 1]
  IN  CallfEnd(IF ~o.broadcast
               THEN mg_rpc_dispatch_frame(m1, fr, NoCh, ~o.no_queue, o.ok)
               ELSE BroadcastFrom(m1, fr, 1, o.en, o.acc, FALSE),
               id, fr.n, o.cbNull)

(* --------------------------- inbound frames ---------------------------- *)

\* a decoded frame: the fields that decide the dispatch
NoIn == [id |-> 0, src |-> "", dst |-> "", method |-> ""]

\* mg_rpc_parse_frame: json_scanf must recognise at least one field
mg_rpc_parse_frame(raw) ==
  IF raw = Garbage THEN [ok |-> FALSE, frame |-> NoIn] ELSE [ok |-> TRUE, frame |-> raw]

is_local_id(ids, id) == \E i \in 1..Len(ids) : ids[i] = id

\* a faulty variant of FindHandler: the method name is not compared
FindHandlerAny(hs, method) == IF hs = <<>> THEN 0 ELSE 1

\* a faulty variant of FindHandler: the last match in the table is taken
FindHandlerLast(hs, method) ==
  LET hit == {i \in 1..Len(hs) : hs[i].method = method}
  IN  IF hit = {} THEN 0 ELSE Max(hit)

\* the first handler registered under the method, 0 if none
FindHandler(hs, method) ==
  LET hit == {i \in 1..Len(hs) : hs[i].method = method}
  IN  IF hit = {} THEN 0 ELSE Min(hit)

\* a faulty variant of FindRequest: the id is not compared
FindRequestAny(reqs, id) == IF reqs = <<>> THEN 0 ELSE 1

\* the first pending request with the id, 0 if none
FindRequest(reqs, id) ==
  LET hit == {i \in 1..Len(reqs) : reqs[i].id = id}
  IN  IF hit = {} THEN 0 ELSE Min(hit)

\* a faulty variant of ResponseFrame: src and dst are copied, not swapped
ResponseFrameUnswapped(m, ri, kind, code) ==
  [n |-> m.nframes + 1, id |-> ri.id, src |-> ri.src, dst |-> ri.dst,
   kind |-> kind, nr |-> FALSE, code |-> code]

\* The frame a response or an error to request info ri is: src and dst are
\* those of the request, swapped.
ResponseFrame(m, ri, kind, code) ==
  [n |-> m.nframes + 1, id |-> ri.id, src |-> ri.dst, dst |-> ri.src,
   kind |-> kind, nr |-> FALSE, code |-> code]

\* mg_rpc_send_responsef (kind "result") and send_errorf (kind "error"): the
\* frame goes to the entry of ri->ch if it is still registered, pinned, and is
\* always allowed on the queue.
SendReply(m, ri, kind, code, ok) ==
  LET i == mg_rpc_get_channel_info_internal(m.channels, ri.ch)
      ci == IF i = 0 THEN NoCh ELSE ri.ch
  IN  mg_rpc_dispatch_frame([m EXCEPT !.nframes = @ + 1],
                            ResponseFrame(m, ri, kind, code), ci, TRUE, ok)

\* The outcome of handling a frame: the machine, the request infos held by
\* handlers, whether the frame was handled, the handler callback invoked (0:
\* none), whether the pre-handler was invoked and whether it returned true,
\* and the result callbacks fired.
Outcome(m, rs, ok) ==
  [m |-> m, ris |-> rs, ok |-> ok, handler |-> 0, pre |-> FALSE, preOk |-> FALSE,
   fired |-> <<>>]

\* a faulty variant of HandlerRuns: the pre-handler's answer is ignored
HandlerRunsAlways(pre, preOk) == TRUE

\* whether the method handler is invoked: pre is whether a pre-handler is
\* installed, preOk what it returns
HandlerRuns(pre, preOk) == ~pre \/ preOk

mg_rpc_handle_request(m, rs, ch, fr, preOk, ok) ==
  LET ri == [id |-> fr.id, src |-> fr.src, dst |-> fr.dst, method |-> fr.method, ch |-> ch]
      hi == FindHandler(handlers, fr.method)
  IN  IF hi = 0
      THEN Outcome(SendReply(m, ri, "error", 404, ok).m, rs, TRUE)
      ELSE [Outcome(m, Append(rs, ri), TRUE) EXCEPT
              !.pre = prehandler,
              !.preOk = prehandler /\ preOk,
              !.handler = IF HandlerRuns(prehandler, preOk) THEN handlers[hi].cb ELSE 0]

mg_rpc_handle_response(m, rs, id) ==
  LET i == FindRequest(m.requests, id)
  IN  IF id = 0 THEN Outcome(m, rs, FALSE)
      ELSE IF i = 0 THEN Outcome(m, rs, TRUE)
      ELSE [Outcome([m EXCEPT !.requests = RemoveAt(@, i)], rs, TRUE) EXCEPT
              !.fired = <<m.requests[i].cb>>]

\* a faulty variant of DstAccepted: the destination is not checked
DstUnchecked(ids, dst) == TRUE

\* whether the frame's destination is accepted
DstAccepted(ids, dst) == dst = "" \/ is_local_id(ids, dst)

\* a faulty variant of NoDst: every entry is taken to have no destination
NoDstAlways(e) == TRUE

\* whether the channel entry has no destination yet
NoDst(e) == e.dst = ""

mg_rpc_handle_frame(m, rs, ch, fr, preOk, ok) ==
  LET i == mg_rpc_get_channel_info_internal(m.channels, ch)
      m1 == IF NoDst(m.channels[i]) THEN [m EXCEPT !.channels[i].dst = fr.src] ELSE m
  IN  IF ~m.channels[i].is_open THEN Outcome(m, rs, FALSE)
      ELSE IF ~DstAccepted(local_ids, fr.dst) THEN Outcome(m, rs, FALSE)
      ELSE IF fr.method # "" THEN mg_rpc_handle_request(m1, rs, ch, fr, preOk, ok)
      ELSE mg_rpc_handle_response(m1, rs, fr.id)

(* ---------------------------- channel events --------------------------- *)

\* MG_RPC_CHANNEL_OPEN, up to the observers
OnOpen(m, ch, acc) ==
  LET i == mg_rpc_get_channel_info_internal(m.channels, ch)
  IN  mg_rpc_process_queue(
        [m EXCEPT !.channels[i].is_open = TRUE, !.channels[i].is_busy = FALSE], acc)

\* MG_RPC_CHANNEL_FRAME_SENT
OnFrameSent(m, ch, acc) ==
  LET i == mg_rpc_get_channel_info_internal(m.channels, ch)
  IN  mg_rpc_process_queue(
        [m EXCEPT !.channels[i].is_busy = FALSE, !.inflight[ch] = @ - 1], acc)

\* a faulty variant of OnClosedMark: the busy flag is left as it is
OnClosedMarkKeepBusy(m, ch) ==
  LET i == mg_rpc_get_channel_info_internal(m.channels, ch)
  IN  [m EXCEPT !.channels[i].is_open = FALSE]

\* MG_RPC_CHANNEL_CLOSED, up to the observers
OnClosedMark(m, ch) ==
  LET i == mg_rpc_get_channel_info_internal(m.channels, ch)
  IN  [m EXCEPT !.channels[i].is_open = FALSE, !.channels[i].is_busy = FALSE]

\* a faulty variant of PinnedTo: the purge finds no entry to remove
PinnedToNone(qe, ch) == FALSE

\* whether a queue entry is pinned to the entry being removed
PinnedTo(qe, ch) == qe.ci = ch

\* the purge of the queue when the entry of ch is removed
RECURSIVE PurgeFrom(_, _, _)
PurgeFrom(m, i, ch) ==
  IF i > Len(m.queue) THEN m
  ELSE IF PinnedTo(m.queue[i], ch) THEN PurgeFrom(mg_rpc_remove_queue_entry(m, i), i, ch)
  ELSE PurgeFrom(m, i + 1, ch)

\* whether MG_RPC_CHANNEL_CLOSED removes the entry: pers is what is_persistent answers
RemoveOnClose(pers) == ~pers

\* MG_RPC_CHANNEL_CLOSED, after the observers: the entry goes with the queue
\* entries pinned to it, and the transport destroys the channel object
OnClosedRemove(m, ch) ==
  LET p == PurgeFrom(m, 1, ch)
      i == mg_rpc_get_channel_info_internal(p.channels, ch)
  IN  [p EXCEPT !.channels = RemoveAt(@, i), !.inflight[ch] = 0]

(* ------------------------------- actions ------------------------------- *)

\* What the last operation did: the operation and its channel, what a call
\* returned (ret) and whether it sent or queued a frame (result), the channels
\* that reported broadcast enabled to it (en), the
\* transport calls (sends: channel, frame number, the transport's answer;
\* connects; closeReq: ch_close; destroyed: ch_destroy), the frames put on the
\* queue (enq), the destination resolutions (resolved), whether the raw
\* inbound frame was parsed, the inbound frame (in:
\* for an answer, the request it answers)
\* with whether it was handled, and the
\* callbacks invoked (handler, pre, fired, observed), the queue entries a
\* CLOSED event purged and whether an inbound frame bound the channel's
\* destination.
NoLast ==
  [op |-> "create", ch |-> NoCh, ret |-> FALSE, result |-> FALSE,
   broadcast |-> FALSE, en |-> {}, sends |-> <<>>, enq |-> <<>>, connects |-> {},
   resolved |-> <<>>, parsed |-> TRUE, in |-> NoIn, handled |-> TRUE, handler |-> 0, pre |-> FALSE,
   preOk |-> FALSE, fired |-> <<>>,
   closeReq |-> FALSE, destroyed |-> FALSE, observed |-> <<>>, pers |-> FALSE,
   purged |-> 0, bound |-> FALSE]

Commit(m) ==
  /\ channels' = m.channels
  /\ queue' = m.queue
  /\ queue_len' = m.queue_len
  /\ requests' = m.requests
  /\ next_id' = m.next_id
  /\ inflight' = m.inflight
  /\ calls' = m.calls
  /\ nframes' = m.nframes

Trace(m, l) ==
  [l EXCEPT !.sends = m.sends, !.enq = m.enq, !.connects = m.connects,
            !.resolved = m.resolved]

\* the operation leaves the machine m and the summary l
Done(m, l) == Commit(m) /\ last' = Trace(m, l)

\* the state after mg_rpc_create with cfg->max_queue_length = maxlen, the
\* transports having the channel objects chs to give
Created(chs, maxlen) ==
  /\ pool = chs
  /\ max_queue_length = maxlen
  /\ next_id = 0
  /\ queue_len = 0
  /\ local_ids = <<CfgId>>
  /\ prehandler = FALSE
  /\ handlers = <<>>
  /\ channels = <<>>
  /\ requests = <<>>
  /\ observers = <<>>
  /\ queue = <<>>
  /\ ris = <<>>
  /\ inflight = [c \in Chans |-> 0]
  /\ calls = <<>>
  /\ nframes = 0
  /\ last = NoLast

Init == Created({Min(Chans)}, MaxQueueLength)

\* frames still to be submitted, counting the answers that handlers owe
Budget == MaxFrames - nframes - Len(ris)

AddLocalId(id) ==
  /\ id # "" => Len(local_ids) < 2
  /\ local_ids' = IF id = "" THEN local_ids ELSE Append(local_ids, id)
  /\ last' = [NoLast EXCEPT !.op = "add_local_id"]
  /\ UNCHANGED <<pool, max_queue_length, next_id, queue_len, prehandler, handlers, channels,
                 requests, observers, queue, ris, inflight, calls, nframes>>

\* mg_rpc_add_handler while fewer than n handlers are registered; the callback
\* of a handler is named by its place in the order of registration
AddHandlerWithin(method, n) ==
  /\ Len(handlers) < n
  /\ handlers' = <<[method |-> method, cb |-> Len(handlers) + 1]>> \o handlers
  /\ last' = [NoLast EXCEPT !.op = "add_handler"]
  /\ UNCHANGED <<pool, max_queue_length, next_id, queue_len, local_ids, prehandler, channels,
                 requests, observers, queue, ris, inflight, calls, nframes>>

AddHandler(method) == AddHandlerWithin(method, MaxHandlers)

SetPrehandler(on) ==
  /\ prehandler # on
  /\ prehandler' = on
  /\ last' = [NoLast EXCEPT !.op = "set_prehandler"]
  /\ UNCHANGED <<pool, max_queue_length, next_id, queue_len, local_ids, handlers, channels,
                 requests, observers, queue, ris, inflight, calls, nframes>>

AddObserver ==
  /\ Len(observers) < MaxObservers
  /\ observers' = <<Len(observers) + 1>> \o observers
  /\ last' = [NoLast EXCEPT !.op = "add_observer"]
  /\ UNCHANGED <<pool, max_queue_length, next_id, queue_len, local_ids, prehandler, handlers,
                 channels, requests, queue, ris, inflight, calls, nframes>>

RemoveObserver(o) ==
  /\ \E i \in 1..Len(observers) : observers[i] = o
  /\ observers' = RemoveAt(observers, Min({i \in 1..Len(observers) : observers[i] = o}))
  /\ last' = [NoLast EXCEPT !.op = "remove_observer"]
  /\ UNCHANGED <<pool, max_queue_length, next_id, queue_len, local_ids, prehandler, handlers,
                 channels, requests, queue, ris, inflight, calls, nframes>>

AddChannel(dst) ==
  /\ pool \ Registered(channels) # {}
  /\ channels' = mg_rpc_add_channel_internal(
                   channels, dst, Min(pool \ Registered(channels)))
  /\ last' = [NoLast EXCEPT !.op = "add_channel",
                            !.ch = Min(pool \ Registered(channels))]
  /\ UNCHANGED <<pool, max_queue_length, next_id, queue_len, local_ids, prehandler, handlers,
                 requests, observers, queue, ris, inflight, calls, nframes>>

\* c: what mg_rpc_vcallf gives
CallfDone(c, o) ==
  Done(c.m, [NoLast EXCEPT !.op = "callf", !.ret = c.ret, !.result = c.result,
                           !.broadcast = o.broadcast, !.en = o.en])

Callf(o) ==
  /\ Budget > 0
  /\ CallfDone(mg_rpc_vcallf(Machine, o), o)
  /\ UNCHANGED <<pool, max_queue_length, local_ids, prehandler, handlers, observers, ris>>

\* a call to one destination of the set dsts, rand() returning a value of rs
CallOpts(dsts, rs) ==
  [cbNull : BOOLEAN, dst : dsts, no_queue : BOOLEAN, r : rs, ok : BOOLEAN,
   broadcast : {FALSE}, en : {{}}, acc : {<<>>}]

\* a broadcast call: en are the channels that report broadcast enabled, of
\* which the transports in ac accept the frame
BroadcastOpts(rs) ==
  {[cbNull |-> cn, dst |-> "", no_queue |-> FALSE, r |-> r, ok |-> TRUE,
    broadcast |-> TRUE, en |-> en, acc |-> [c \in Chans |-> c \in ac]] :
     cn \in BOOLEAN, r \in rs,
     en \in SUBSET Registered(channels), ac \in SUBSET Registered(channels)}

\* What an observer called with event ev for channel ch finds: the
\* destination it is given, the channel entry and its flags, the length of the
\* queue and the number of frames offered to transports so far.
Notice(m, ch, ev, obs) ==
  [obs |-> obs, ev |-> ev, dst |-> EntryOf(m.channels, ch).dst,
   registered |-> ch \in Registered(m.channels),
   open |-> EntryOf(m.channels, ch).is_open, busy |-> EntryOf(m.channels, ch).is_busy,
   qlen |-> Len(m.queue), offers |-> Len(m.sends)]

\* a faulty variant of Notify: the observers are called for a channel without
\* destination too
NotifyAlways(m, ch, ev) ==
  [i \in 1..Len(observers) |-> Notice(m, ch, ev, observers[i])]

\* the observers are called, in list order, with the channel's destination,
\* if it has one
Notify(m, ch, ev) ==
  IF EntryOf(m.channels, ch).dst = "" THEN <<>>
  ELSE [i \in 1..Len(observers) |-> Notice(m, ch, ev, observers[i])]

OpenDone(m, ch) ==
  Done(m, [NoLast EXCEPT !.op = "OPEN", !.ch = ch, !.observed = Notify(m, ch, "OPEN")])

EvOpen(ch, acc) ==
  /\ ch \in Registered(channels)
  /\ ~EntryOf(channels, ch).is_open
  /\ OpenDone(OnOpen(Machine, ch, acc), ch)
  /\ UNCHANGED <<pool, max_queue_length, local_ids, prehandler, handlers, observers, ris>>

EvFrameSent(ch, acc) ==
  /\ ch \in Registered(channels)
  /\ inflight[ch] > 0
  /\ Done(OnFrameSent(Machine, ch, acc), [NoLast EXCEPT !.op = "FRAME_SENT", !.ch = ch])
  /\ UNCHANGED <<pool, max_queue_length, local_ids, prehandler, handlers, observers, ris>>

\* the inputs the drain may read: one per queue entry
DrainInputs == [1..Len(queue) -> BOOLEAN]

\* re: the call an observer makes from its callback, or NoCall
NoCall == [broadcast |-> FALSE, none |-> TRUE]

\* MG_RPC_CHANNEL_CLOSED after the observers, which left the machine m2
OnClosedEnd(m2, ch, pers) ==
  IF RemoveOnClose(pers) THEN OnClosedRemove(m2, ch) ELSE m2

\* the observers' callbacks run on the machine m: one of them may call (re)
ObserversCall(m, re) == IF re = NoCall THEN m ELSE mg_rpc_vcallf(m, re).m

\* the entry of ch is unlinked and its channel destroyed
OnClosedUnlink(m, ch) ==
  [m EXCEPT !.channels = RemoveAt(@, mg_rpc_get_channel_info_internal(@, ch)),
            !.inflight[ch] = 0]

\* a faulty variant of OnClosedRest: the queue is purged before the observers
\* are called
OnClosedPurgeFirst(m1, ch, pers, re) ==
  IF RemoveOnClose(pers)
  THEN OnClosedUnlink(ObserversCall(PurgeFrom(m1, 1, ch), re), ch)
  ELSE ObserversCall(m1, re)

\* MG_RPC_CHANNEL_CLOSED once the entry is marked (m1): the observers are
\* called, then the entry is removed if the channel is not persistent
OnClosedRest(m1, ch, pers, re) == OnClosedEnd(ObserversCall(m1, re), ch, pers)

ClosedDone(m, ch, pers, seen) ==
  Done(m, [NoLast EXCEPT !.op = "CLOSED", !.ch = ch, !.pers = pers, !.observed = seen,
                         !.destroyed = RemoveOnClose(pers),
                         !.purged = Len(queue) + Len(m.enq) - Len(m.queue)])

EvClosed(ch, pers, re) ==
  /\ ch \in Registered(channels)
  /\ LET m1 == OnClosedMark(Machine, ch)
         seen == Notify(m1, ch, "CLOSED")
     IN  /\ re # NoCall => seen # <<>> /\ Budget > 0
         /\ ClosedDone(OnClosedRest(m1, ch, pers, re), ch, pers, seen)
  /\ UNCHANGED <<pool, max_queue_length, local_ids, prehandler, handlers, observers, ris>>

\* a faulty variant of CloseOnFailure: every frame closes a channel that is
\* not persistent
CloseAlways(ok, pers) == ~pers

\* whether ch_close is called after an inbound frame: ok is whether the frame
\* was parsed and handled, pers what is_persistent answers
CloseOnFailure(ok, pers) == ~ok /\ ~pers

\* MG_RPC_CHANNEL_FRAME_RECD_PARSED with frame fr.  preOk: what the pre-handler
\* returns; pers: what is_persistent answers; ok: the transport's answer to a send
\* h: the outcome of handling the frame; a frame that was not handled makes
\* the handler ask is_persistent and close a channel that is not
ReceivedDone(h, ch, parsed, fr, pers) ==
  /\ ris' = h.ris
  /\ Done(h.m, [NoLast EXCEPT
                  !.op = "FRAME_RECD", !.ch = ch, !.parsed = parsed, !.in = fr,
                  !.handled = h.ok,
                  !.handler = h.handler, !.pre = h.pre, !.preOk = h.preOk,
                  !.fired = h.fired,
                  !.pers = ~h.ok /\ pers, !.closeReq = CloseOnFailure(h.ok, pers),
                  !.bound = EntryOf(h.m.channels, ch).dst # EntryOf(channels, ch).dst])

Received(ch, parsed, fr, preOk, pers, ok) ==
  /\ ch \in Registered(channels)
  /\ fr.method # "" => Budget > 0 /\ Len(ris) < MaxRi
  /\ ReceivedDone(IF parsed THEN mg_rpc_handle_frame(Machine, ris, ch, fr, preOk, ok)
                  ELSE Outcome(Machine, ris, FALSE),
                  ch, parsed, fr, pers)
  /\ UNCHANGED <<pool, max_queue_length, local_ids, prehandler, handlers, observers>>

EvFrameRecdParsed(ch, fr, preOk, pers, ok) == Received(ch, TRUE, fr, preOk, pers, ok)

\* MG_RPC_CHANNEL_FRAME_RECD with the raw frame
EvFrameRecd(ch, raw, preOk, pers, ok) ==
  LET p == mg_rpc_parse_frame(raw)
  IN  Received(ch, p.ok, p.frame, preOk, pers, ok)

\* a handler (or the pre-handler) answers the j-th request info it holds
\* d: what the dispatch of the answer gives
ReplyDone(d, kind, ri) ==
  Done(d.m, [NoLast EXCEPT !.op = kind, !.ch = ri.ch, !.ret = d.result, !.result = d.result,
                           !.in = [id |-> ri.id, src |-> ri.src, dst |-> ri.dst,
                                   method |-> ri.method]])

SendResponse(j, kind, ok) ==
  /\ j \in 1..Len(ris)
  /\ ReplyDone(SendReply(Machine, ris[j], kind, IF kind = "error" THEN 500 ELSE 0, ok),
               kind, ris[j])
  /\ ris' = RemoveAt(ris, j)
  /\ UNCHANGED <<pool, max_queue_length, local_ids, prehandler, handlers, observers>>

\* the inbound frames of the environment: requests, and responses that carry
\* no id, the id of a call made so far or an id no call used
InFrames(srcs, dsts, methods) ==
  [id : {1}, src : srcs, dst : dsts, method : methods]
  \cup [id : {0, UnknownId} \cup {calls[k].id : k \in 1..Len(calls)},
        src : srcs, dst : dsts, method : {""}]

PreAnswers == IF prehandler THEN BOOLEAN ELSE {TRUE}

(* --------------------------- specifications --------------------------- *)

\* Calls and channel events on one channel object: every option of a call,
\* every answer of the transport, channels registered under every destination.
Next ==
  \/ \E dst \in AddDsts : AddChannel(dst)
  \/ \E o \in CallOpts({"", "peer"}, {MaxRand}) : Callf(o)
  \/ \E o \in BroadcastOpts({MaxRand}) : Callf(o)
  \/ \E ch \in Chans, acc \in DrainInputs : EvOpen(ch, acc)
  \/ \E ch \in Chans, acc \in DrainInputs : EvFrameSent(ch, acc)
  \/ \E ch \in Chans, pers \in BOOLEAN : EvClosed(ch, pers, NoCall)

Spec == Init /\ [][Next]_vars

\* Requests to a peer and the responses it returns: every value of rand(),
\* calls with and without a callback, responses with every id; the transport
\* accepts every frame.
NextRpc ==
  \/ AddChannel("peer")
  \/ \E o \in {c \in CallOpts({"peer"}, 0..MaxRand) : ~c.no_queue /\ c.ok} : Callf(o)
  \/ \E ch \in Chans : EvOpen(ch, <<>>)
  \/ \E ch \in Chans : EvFrameSent(ch, <<>>)
  \/ \E ch \in Chans, pers \in BOOLEAN : EvClosed(ch, pers, NoCall)
  \/ \E ch \in Chans, fr \in InFrames({"peer"}, {""}, {}), pers \in BOOLEAN :
       EvFrameRecdParsed(ch, fr, TRUE, pers, TRUE)

SpecRpc == Init /\ [][NextRpc]_vars

\* Requests of a peer and the answers to them, among no-response calls and
\* channel events.
NextServe ==
  \/ \E dst \in {"", "peer"} : AddChannel(dst)
  \/ AddHandler("M")
  \/ \E o \in {c \in CallOpts({"peer"}, {MaxRand}) : c.cbNull} : Callf(o)
  \/ \E ch \in Chans, acc \in DrainInputs : EvOpen(ch, acc)
  \/ \E ch \in Chans, acc \in DrainInputs : EvFrameSent(ch, acc)
  \/ \E ch \in Chans, pers \in BOOLEAN : EvClosed(ch, pers, NoCall)
  \/ \E ch \in Chans, fr \in InFrames({"peer"}, {"", "dev"}, InMethods),
        pers \in BOOLEAN, ok \in BOOLEAN :
       EvFrameRecdParsed(ch, fr, TRUE, pers, ok)
  \/ \E ch \in Chans, pers \in BOOLEAN : EvFrameRecd(ch, Garbage, TRUE, pers, TRUE)
  \/ \E j \in 1..MaxRi, kind \in {"result", "error"}, ok \in BOOLEAN :
       SendResponse(j, kind, ok)

SpecServe == Init /\ [][NextServe]_vars

\* The dispatch of inbound frames under every configuration of local ids,
\* handlers and pre-handler; the transport accepts every frame.
NextDispatch ==
  \/ AddLocalId(AliasId)
  \/ AddHandler("M")
  \/ SetPrehandler(TRUE)
  \/ \E dst \in {"", "peer"} : AddChannel(dst)
  \/ \E o \in {c \in CallOpts({"peer"}, {MaxRand}) : ~c.cbNull /\ ~c.no_queue /\ c.ok} :
       Callf(o)
  \/ \E ch \in Chans : EvOpen(ch, <<>>)
  \/ \E ch \in Chans, fr \in InFrames({"peer"}, InDsts, InMethods),
        preOk \in PreAnswers, pers \in BOOLEAN :
       EvFrameRecdParsed(ch, fr, preOk, pers, TRUE)
  \/ \E ch \in Chans, pers \in BOOLEAN : EvFrameRecd(ch, Garbage, TRUE, pers, TRUE)
  \/ \E j \in 1..MaxRi : SendResponse(j, "result", TRUE)

SpecDispatch == Init /\ [][NextDispatch]_vars

\* whether the registry holds a channel and the first one is closed
HeadClosed == channels # <<>> /\ ~channels[1].is_open

\* Calls to a destination whose channel is registered but closed, then the
\* channel opens; the transport accepts every frame and reports each one sent.
NextDrain ==
  \/ AddChannel("peer")
  \/ HeadClosed /\ \E o \in {c \in CallOpts({"peer"}, 0..MaxRand) : ~c.no_queue} : Callf(o)
  \/ \E ch \in Chans : EvOpen(ch, <<>>)
  \/ \E ch \in Chans : EvFrameSent(ch, <<>>)

SpecDrain == Init /\ [][NextDrain]_vars

\* two channel objects for the transports to give
TwoChans == {Min(Chans), Max(Chans)}

InitTwo == Created(TwoChans, MaxQueueLength)

\* the requests a peer sends for a method
Requests(dsts, methods) == {f \in InFrames({"peer"}, dsts, methods) : f.method # ""}

\* Requests of a peer on two channels and the answers of the handlers, among
\* the events of both channels; the channels are registered without
\* destination and a drain finds the transports willing.
NextReply ==
  \/ AddChannel("")
  \/ AddHandler("M")
  \/ SetPrehandler(TRUE)
  \/ \E ch \in Chans : EvOpen(ch, <<>>)
  \/ \E ch \in Chans : EvFrameSent(ch, <<>>)
  \/ \E ch \in Chans, pers \in BOOLEAN : EvClosed(ch, pers, NoCall)
  \/ \E ch \in Chans, fr \in Requests({"", "dev"}, InMethods),
        preOk \in PreAnswers, ok \in BOOLEAN :
       EvFrameRecdParsed(ch, fr, preOk, TRUE, ok)
  \/ \E j \in 1..MaxRi, kind \in {"result", "error"}, ok \in BOOLEAN :
       SendResponse(j, kind, ok)

SpecReply == InitTwo /\ [][NextReply]_vars

\* Broadcast calls over two channels, among calls to the peer that fill the
\* queue and the events of both channels; the channels are persistent.
NextBroadcast ==
  \/ \E dst \in {"peer", "*"} : AddChannel(dst)
  \/ \E o \in BroadcastOpts({MaxRand}) : Callf(o)
  \/ \E o \in {c \in CallOpts({"peer"}, {MaxRand}) : ~c.no_queue /\ ~c.cbNull} : Callf(o)
  \/ \E ch \in Chans, acc \in DrainInputs : EvOpen(ch, acc)
  \/ \E ch \in Chans : EvFrameSent(ch, <<>>)
  \/ \E ch \in Chans : EvClosed(ch, TRUE, NoCall)

SpecBroadcast == InitTwo /\ [][NextBroadcast]_vars

\* Frames of several peers, with and without src, on channels registered with
\* and without destination, among the events of the channels; the methods
\* have no handler.
NextBind ==
  \/ AddLocalId(AliasId)
  \/ \E dst \in {"", "peer"} : AddChannel(dst)
  \/ \E ch \in Chans : EvOpen(ch, <<>>)
  \/ \E ch \in Chans : EvFrameSent(ch, <<>>)
  \/ \E ch \in Chans, pers \in BOOLEAN : EvClosed(ch, pers, NoCall)
  \/ \E ch \in Chans, fr \in InFrames(InSrcs, InDsts, {"Nope"}), pers \in BOOLEAN :
       EvFrameRecdParsed(ch, fr, TRUE, pers, TRUE)
  \/ \E ch \in Chans, pers \in BOOLEAN : EvFrameRecd(ch, Garbage, TRUE, pers, TRUE)

SpecBind == Init /\ [][NextBind]_vars

\* the calls an observer makes from its callback: a call without callback to
\* the peer, which may be queued
ObserverCalls == {c \in CallOpts({"peer"}, {MaxRand}) : c.cbNull /\ ~c.no_queue /\ c.ok}

\* The send queue under two channels: calls to a peer that has no channel yet,
\* one channel or two, drains in which each transport accepts or refuses, and
\* closes of persistent and other channels during which an observer may call.
NextQueue ==
  \/ AddObserver
  \/ \E dst \in {"", "peer"} : AddChannel(dst)
  \/ \E o \in {c \in CallOpts({"peer"}, {MaxRand}) : c.cbNull /\ ~c.no_queue} : Callf(o)
  \/ \E ch \in Chans, acc \in DrainInputs : EvOpen(ch, acc)
  \/ \E ch \in Chans, acc \in DrainInputs : EvFrameSent(ch, acc)
  \/ \E ch \in Chans, pers \in BOOLEAN, re \in {NoCall} \cup ObserverCalls :
       EvClosed(ch, pers, re)

SpecQueue == InitTwo /\ [][NextQueue]_vars

\* Destination resolution over two channels: calls without callback to every
\* kind of destination (none, a plain id, URIs of a dialed and of another
\* scheme), channels registered under plain destinations, and their events;
\* a drain finds the transports and the dialer willing.
NextResolve ==
  \/ \E dst \in AddDsts : AddChannel(dst)
  \/ \E o \in {c \in CallOpts(CallDsts, {MaxRand}) : c.cbNull /\ ~c.no_queue} : Callf(o)
  \/ \E ch \in Chans : EvOpen(ch, <<>>)
  \/ \E ch \in Chans : EvFrameSent(ch, <<>>)
  \/ \E ch \in Chans, pers \in BOOLEAN : EvClosed(ch, pers, NoCall)

SpecResolve == InitTwo /\ [][NextResolve]_vars

\* Requests for methods that have no handler, one handler or two, with and
\* without the pre-handler; the transport accepts every frame.
NextHandlers ==
  \/ \E method \in InMethods : AddHandlerWithin(method, MaxSameMethod)
  \/ SetPrehandler(TRUE)
  \/ AddChannel("")
  \/ \E ch \in Chans : EvOpen(ch, <<>>)
  \/ \E ch \in Chans : EvFrameSent(ch, <<>>)
  \/ \E ch \in Chans, fr \in Requests({""}, InMethods), preOk \in PreAnswers :
       EvFrameRecdParsed(ch, fr, preOk, TRUE, TRUE)
  \/ \E j \in 1..MaxRi : SendResponse(j, "result", TRUE)

SpecHandlers == Init /\ [][NextHandlers]_vars

\* Calls to a peer that has no channel yet or one, on a channel that stays
\* registered (it is persistent); the transport accepts every frame it is
\* offered.  The peer's frames arrive on the channel.  A closed channel is
\* eventually opened and an accepted frame is eventually reported sent: the
\* transport delivers OPEN and FRAME_SENT whenever they are due.
NextProgress ==
  \/ \E dst \in {"", "peer"} : AddChannel(dst)
  \/ \E o \in {c \in CallOpts({"peer"}, {MaxRand}) : c.cbNull /\ ~c.no_queue /\ c.ok} :
       Callf(o)
  \/ \E ch \in Chans : EvOpen(ch, <<>>)
  \/ \E ch \in Chans : EvFrameSent(ch, <<>>)
  \/ \E ch \in Chans : EvClosed(ch, TRUE, NoCall)
  \/ \E ch \in Chans, fr \in InFrames({"peer"}, {""}, {}) :
       EvFrameRecdParsed(ch, fr, TRUE, TRUE, TRUE)

SpecProgress ==
  /\ Init
  /\ [][NextProgress]_vars
  /\ \A ch \in Chans : WF_vars(EvOpen(ch, <<>>)) /\ WF_vars(EvFrameSent(ch, <<>>))

(* ------------------------------- claims -------------------------------- *)

\* whether the last operation handed a frame to a transport that accepted it,
\* or put a frame on the send queue
FrameSentOrQueued ==
  (\E i \in 1..Len(last.sends) : last.sends[i].ok) \/ last.enq # <<>>

\* C1: mg_rpc_callf returns true if and only if at least one frame of the call
\* was accepted by a transport or appended to the send queue, with a result
\* callback and with a null one.
C1_CallfTrueIffSentOrQueued ==
  last.op = "callf" => (last.ret <=> FrameSentOrQueued)

\* the ids of the local identities
LocalIdSet == {local_ids[i] : i \in 1..Len(local_ids)}

\* the last operation was an inbound response that arrived on an open channel
\* with a destination the device accepts
ResponseAccepted ==
  /\ last.op = "FRAME_RECD"
  /\ last.in.method = ""
  /\ last.ch \in Registered(channels)
  /\ EntryOf(channels, last.ch).is_open
  /\ last.in.dst = "" \/ last.in.dst \in LocalIdSet

\* the call whose callback is cb
CallOf(cb) == CHOOSE k \in 1..Len(calls) : calls[k].n = cb

\* C2: a response with the id of a request sent with a callback invokes the
\* stored callback exactly once, so that no request with that id stays pending
\* and a second response with the same id invokes nothing; a response whose id
\* matches no pending request invokes no callback and is not an error.
C2_ResponseFiresOnce ==
  (ResponseAccepted /\ last.in.id # 0) =>
    /\ last.handled
    /\ Len(last.fired) <= 1
    /\ \A i \in 1..Len(last.fired) : calls[CallOf(last.fired[i])].id = last.in.id
    /\ \A i \in 1..Len(requests) : requests[i].id # last.in.id

\* C3: a busy channel entry has exactly one frame that its transport accepted
\* and for which no FRAME_SENT event was delivered, across OPEN and CLOSED
\* events too.
C3_BusyMeansOneInFlight ==
  \A i \in 1..Len(channels) : channels[i].is_busy => inflight[channels[i].ch] = 1

\* the last operation submitted a frame (a call, a response or an error)
Submitted == last.op \in {"callf", "result", "error"}

\* C4: after any sequence of calls, responses, errors and channel events
\* queue_len is at most max_queue_length, and an operation that begins with
\* queue_len >= max_queue_length puts nothing on the queue: the queue does not
\* grow, and a frame that was not accepted by a transport is reported as failed.
C4_QueueBound ==
  /\ [](queue_len <= max_queue_length /\ Len(queue) <= max_queue_length)
  /\ [][queue_len >= max_queue_length =>
          /\ last'.enq = <<>>
          /\ Len(queue') <= Len(queue)
          /\ (Submitted' /\ \A i \in 1..Len(last'.sends) : ~last'.sends[i].ok)
               => ~last'.result]_vars

\* C4 (reached): an answer to a request is dropped because the queue is full
C4_Witness ==
  /\ last.op \in {"result", "error"}
  /\ ~last.result
  /\ last.enq = <<>>
  /\ queue_len = max_queue_length
  /\ max_queue_length > 0

\* C5: after a CLOSED event the channel entry is still registered if and only
\* if the transport reports the channel persistent; the entry of a channel
\* that is not is unlinked, the transport is asked to destroy the channel, no
\* queue entry pinned to it remains and queue_len counts the entries left.
C5_PersistenceOnClose ==
  last.op = "CLOSED" =>
    /\ last.ch \in Registered(channels) <=> last.pers
    /\ ~last.pers =>
         /\ last.destroyed
         /\ \A i \in 1..Len(queue) : queue[i].ci # last.ch
         /\ queue_len = Len(queue)
    /\ last.pers => ~last.destroyed /\ last.purged = 0

\* C5 (reached): a channel that is not persistent closes with frames queued for it
C5_Witness ==
  /\ last.op = "CLOSED"
  /\ ~last.pers
  /\ last.purged >= 1
  /\ last.ch \notin Registered(channels)

\* C6: a frame is never accepted by a channel's transport while a frame that
\* was submitted earlier for the same channel is still waiting in the send queue.
C6_FifoPerChannel ==
  \A i \in 1..Len(last.sends) :
    last.sends[i].ok =>
      \A j \in 1..Len(queue) :
        queue[j].ci = last.sends[i].ch => queue[j].frame.n > last.sends[i].n

\* C7: an inbound frame whose dst is not empty and is none of the local
\* identities invokes no handler and no pre-handler, fires no result callback
\* and does not bind the channel's destination; so a handler or the pre-handler
\* is invoked only for a frame whose dst is empty or a local identity.
C7_RoutingByLocalId ==
  (last.op = "FRAME_RECD" /\ last.in.dst # "" /\ last.in.dst \notin LocalIdSet) =>
    /\ last.handler = 0
    /\ ~last.pre
    /\ last.fired = <<>>
    /\ ~last.bound
    /\ ~last.handled

\* C7 (reached): a request for a registered method arrives on an open channel
\* with no destination yet, addressed to another device, while a request of
\* the device is pending
C7_Witness ==
  /\ last.op = "FRAME_RECD"
  /\ last.in.dst = "other"
  /\ last.in.method = "M"
  /\ handlers # <<>>
  /\ requests # <<>>
  /\ last.ch \in Registered(channels)
  /\ EntryOf(channels, last.ch).is_open
  /\ EntryOf(channels, last.ch).dst = ""

\* the calls that were put on the queue: the first max_queue_length ones
Enqueued == Min({nframes, max_queue_length})

\* whether the registry holds a channel and the first one is open
HeadOpen == channels # <<>> /\ channels[1].is_open

\* C8: calls issued while the destination's channel is registered but closed
\* are enqueued, up to max_queue_length of them, and none is handed to the
\* transport; OPEN hands the first one to the transport and each FRAME_SENT the
\* next one, in call order and one at a time, until the queue is empty.
C8_DrainOnOpen ==
  LET k == Enqueued - queue_len
  IN  /\ queue_len = Len(queue)
      /\ \A i \in 1..Len(queue) : queue[i].frame.n = k + i
      /\ ~HeadOpen => k = 0 /\ last.sends = <<>> /\ inflight[Min(Chans)] = 0
      /\ last.op = "callf" => last.sends = <<>>
      /\ last.op \in {"OPEN", "FRAME_SENT"} =>
           /\ Len(last.sends) <= 1
           /\ \A i \in 1..Len(last.sends) :
                last.sends[i].ch = last.ch /\ last.sends[i].n = k /\ last.sends[i].ok
      /\ last.op = "OPEN" /\ Enqueued > 0 => Len(last.sends) = 1 /\ k = 1
      /\ HeadOpen => /\ inflight[channels[1].ch] = (IF channels[1].is_busy THEN 1 ELSE 0)
                     /\ ~channels[1].is_busy => queue = <<>>
                     /\ Enqueued > 0 => k >= 1

\* C8 (reached): max_queue_length calls were queued for the closed channel, it
\* opened, and the FRAME_SENT of the last frame leaves the queue empty
C8_Witness ==
  /\ nframes = max_queue_length
  /\ max_queue_length > 1
  /\ last.op = "FRAME_SENT"
  /\ last.sends = <<>>
  /\ queue = <<>>
  /\ HeadOpen
  /\ ~channels[1].is_busy

\* the last operation was a call to one destination
SingleCall == last.op = "callf" /\ ~last.broadcast

\* C9: a call to one destination that can neither send nor enqueue its frame
\* returns false, leaves the queue as it was and registers no pending request;
\* a call whose frame is put on the queue succeeds, so with max_queue_length = 2
\* and the channel closed the first two calls succeed and the third fails with
\* two entries on the queue.
C9_FailedCallLeavesNoTrace ==
  SingleCall =>
    /\ ~FrameSentOrQueued =>
         /\ ~last.ret
         /\ \A i \in 1..Len(requests) : requests[i].cb # nframes
         /\ queue_len = Len(queue)
    /\ last.enq # <<>> => last.ret
    /\ (last.sends = <<>> /\ last.enq = <<>> /\ nframes > max_queue_length /\ ~HeadOpen
          /\ queue_len = max_queue_length)
         => ~last.ret /\ Len(queue) = max_queue_length

\* the frame the last call emitted, as it was sent or as it is on the queue
EmittedFrames ==
  {last.sends[i].f : i \in 1..Len(last.sends)}
  \cup {queue[j].frame : j \in {i \in 1..Len(queue) : queue[i].frame.n = nframes}}

\* the pending requests registered for the callback of frame n
PendingOf(n) == {i \in 1..Len(requests) : requests[i].cb = n}

\* C10: a call with a null callback emits a frame marked nr and registers no
\* pending request, a call with a callback emits a frame without the mark and
\* registers one pending request with the frame's id; a response that carries
\* the id of a null-callback call invokes no callback, is handled without
\* failure and does not make the channel close.
C10_NoResponseCalls ==
  /\ last.op = "callf" =>
       /\ \A f \in EmittedFrames : f.nr = calls[Len(calls)].cbNull /\ f.id = calls[Len(calls)].id
       /\ calls[Len(calls)].cbNull => PendingOf(nframes) = {}
       /\ (~calls[Len(calls)].cbNull /\ FrameSentOrQueued) =>
            /\ Cardinality(PendingOf(nframes)) = 1
            /\ \A i \in PendingOf(nframes) : requests[i].id = calls[Len(calls)].id
  /\ (ResponseAccepted /\ last.in.id # 0
        /\ \E k \in 1..Len(calls) : calls[k].cbNull /\ calls[k].id = last.in.id) =>
       /\ last.fired = <<>>
       /\ last.handled
       /\ ~last.closeReq

\* the last operation was an inbound request that arrived on an open channel
\* with a destination the device accepts
RequestAccepted ==
  /\ last.op = "FRAME_RECD"
  /\ last.in.method # ""
  /\ last.ch \in Registered(channels)
  /\ EntryOf(channels, last.ch).is_open
  /\ last.in.dst = "" \/ last.in.dst \in LocalIdSet

\* no handler is registered under the method of the inbound frame
NoHandlerForMethod == \A i \in 1..Len(handlers) : handlers[i].method # last.in.method

\* the frames the last operation placed, each with the channel entry whose
\* transport accepted it or to which its queue entry is pinned
Placed ==
  {[ch |-> last.sends[i].ch, f |-> last.sends[i].f] :
     i \in {k \in 1..Len(last.sends) : last.sends[k].ok}}
  \cup {[ch |-> queue[j].ci, f |-> queue[j].frame] :
          j \in {k \in 1..Len(queue) :
                   \E e \in 1..Len(last.enq) : last.enq[e] = queue[k].frame.n}}

\* f is an error 404 that answers the inbound frame, src being its source
Is404(f, src) ==
  /\ f.kind = "error"
  /\ f.code = 404
  /\ f.id = last.in.id
  /\ f.src = src
  /\ f.dst = last.in.src

\* C11: an accepted request whose method has no handler invokes neither the
\* pre-handler nor a handler and produces exactly one error 404 with the
\* request's id, src the request's dst and dst the request's src, sent or
\* queued on the channel the request arrived on; the frame counts as handled
\* and no close is requested.
C11_UnknownMethod404 ==
  (RequestAccepted /\ NoHandlerForMethod) =>
    /\ ~last.pre
    /\ last.handler = 0
    /\ last.handled
    /\ ~last.closeReq
    /\ Cardinality(Placed) = 1
    /\ \A p \in Placed : p.ch = last.ch /\ Is404(p.f, last.in.dst)

\* C11 (amended): as C11, but the error's src is the primary local id when the
\* request named no dst, and the error is dropped, nothing being sent or
\* queued, when the transport does not take it and the queue is full.
C11_UnknownMethod404Amended ==
  (RequestAccepted /\ NoHandlerForMethod) =>
    /\ ~last.pre
    /\ last.handler = 0
    /\ last.handled
    /\ ~last.closeReq
    /\ Cardinality(Placed) <= 1
    /\ Placed = {} => queue_len >= max_queue_length /\ last.enq = <<>>
    /\ \A p \in Placed :
         /\ p.ch = last.ch
         /\ Is404(p.f, IF last.in.dst = "" THEN local_ids[1] ELSE last.in.dst)

\* C11 (reached): with a handler and the pre-handler installed, a request for
\* a method without handler arrives on a busy
\* channel and the error 404 is put on the queue, while another channel to
\* the same peer is open and idle
C11_Witness ==
  /\ RequestAccepted
  /\ NoHandlerForMethod
  /\ handlers # <<>>
  /\ prehandler
  /\ last.sends = <<>>
  /\ Len(last.enq) = 1
  /\ \E i \in 1..Len(channels) :
       /\ channels[i].ch # last.ch
       /\ channels[i].dst = last.in.src
       /\ channels[i].is_open /\ ~channels[i].is_busy
  /\ \E p \in Placed : p.ch = last.ch /\ p.f.code = 404 /\ p.f.src = last.in.dst

\* the last operation was an answer (send_response or send_error) to a request
\* whose channel is registered
AnswerOnRegistered ==
  /\ last.op \in {"result", "error"}
  /\ last.ch \in Registered(channels)
  /\ last.connects = {}

\* f answers the request of the last operation, src being its source
AnswersRequest(f, src) ==
  /\ f.kind = last.op
  /\ f.id = last.in.id
  /\ f.src = src
  /\ f.dst = last.in.src

\* C12: a response or an error carries the request's id with src and dst
\* swapped and, while the channel the request arrived on is registered, is
\* accepted by that channel's transport or put on the queue pinned to that
\* channel; no other channel's transport is offered the frame.
C12_ResponseRouting ==
  AnswerOnRegistered =>
    /\ \A i \in 1..Len(last.sends) : last.sends[i].ch = last.ch
    /\ Cardinality(Placed) = 1
    /\ \A p \in Placed : p.ch = last.ch /\ AnswersRequest(p.f, last.in.dst)

\* C12 (amended): as C12, but the frame's src is the primary local id when the
\* request named no dst, and the frame is dropped, nothing being sent or
\* queued, when the transport does not take it and the queue is full.
C12_ResponseRoutingAmended ==
  AnswerOnRegistered =>
    /\ \A i \in 1..Len(last.sends) : last.sends[i].ch = last.ch
    /\ Cardinality(Placed) <= 1
    /\ Placed = {} => queue_len >= max_queue_length /\ last.enq = <<>> /\ ~last.ret
    /\ Placed # {} => last.ret
    /\ \A p \in Placed :
         /\ p.ch = last.ch
         /\ AnswersRequest(p.f, IF last.in.dst = "" THEN local_ids[1] ELSE last.in.dst)
    /\ (~EntryOf(channels, last.ch).is_open /\ queue_len < max_queue_length) =>
         \E j \in 1..Len(queue) : queue[j].ci = last.ch /\ queue[j].frame.n = nframes

\* C12 (reached): a response to a request that named a dst is queued for the
\* request's channel, which has closed, while another channel to the same peer
\* is open and idle
C12_Witness ==
  /\ AnswerOnRegistered
  /\ last.op = "result"
  /\ last.in.dst # ""
  /\ ~EntryOf(channels, last.ch).is_open
  /\ \E i \in 1..Len(channels) :
       /\ channels[i].ch # last.ch
       /\ channels[i].dst = last.in.src
       /\ channels[i].is_open /\ ~channels[i].is_busy
  /\ \E p \in Placed : p.ch = last.ch /\ p.f.src = last.in.dst /\ p.f.dst = last.in.src

\* the channels whose transport the last operation offered a frame
Offered == {last.sends[i].ch : i \in 1..Len(last.sends)}

\* C13: a broadcast call offers the frame, directly and once, to the transport
\* of every registered channel that reports broadcast enabled and can take a
\* frame, and to no channel that reports it disabled; it puts nothing on the
\* send queue, and it succeeds if and only if one of the transports accepted
\* the frame.
C13_Broadcast ==
  (last.op = "callf" /\ last.broadcast) =>
    /\ Offered \subseteq last.en
    /\ \A ch \in last.en \cap Registered(channels) :
         ch \in Offered \/ ~CanSend(EntryOf(channels, ch))
    /\ \A i, j \in 1..Len(last.sends) : last.sends[i].ch = last.sends[j].ch => i = j
    /\ \A i \in 1..Len(last.sends) : last.sends[i].n = nframes
    /\ last.enq = <<>>
    /\ \A j \in 1..Len(queue) : queue[j].frame.n # nframes
    /\ last.ret <=> \E i \in 1..Len(last.sends) : last.sends[i].ok

\* the last operation was an inbound frame whose processing must fail: the raw
\* frame did not parse, the channel is not open, the dst is not a local
\* identity, or the frame is a response with id zero
InboundMustFail ==
  /\ last.op = "FRAME_RECD"
  /\ \/ ~last.parsed
     \/ ~EntryOf(channels, last.ch).is_open
     \/ last.in.dst # "" /\ last.in.dst \notin LocalIdSet
     \/ last.in.method = "" /\ last.in.id = 0

\* C14: an inbound frame whose processing fails invokes no handler, no
\* pre-handler and no result callback, and makes the core ask the transport to
\* close the channel if and only if the channel is not persistent; a frame
\* that was handled causes no close request.
C14_CloseOnInboundFailure ==
  last.op = "FRAME_RECD" =>
    /\ InboundMustFail => ~last.handled
    /\ ~last.handled =>
         /\ InboundMustFail
         /\ last.handler = 0 /\ ~last.pre /\ last.fired = <<>>
         /\ last.closeReq <=> ~last.pers
    /\ last.handled => ~last.closeReq

\* C14 (reached): a response with id zero arrives on an open channel that is
\* not persistent, with a request pending, and the channel is asked to close
C14_Witness ==
  /\ last.op = "FRAME_RECD"
  /\ last.parsed
  /\ EntryOf(channels, last.ch).is_open
  /\ last.in.method = "" /\ last.in.id = 0
  /\ requests # <<>>
  /\ ~last.handled
  /\ last.closeReq

\* C15: every channel entry that is busy is open.
C15_BusyImpliesOpen ==
  \A i \in 1..Len(channels) : channels[i].is_busy => channels[i].is_open

\* C15 (reached): a persistent channel closes while its transport holds a
\* frame it has not reported sent, and its entry is neither open nor busy
C15_Witness ==
  /\ last.op = "CLOSED"
  /\ last.pers
  /\ inflight[last.ch] > 0
  /\ ~EntryOf(channels, last.ch).is_open
  /\ ~EntryOf(channels, last.ch).is_busy

\* the destination of the entry of channel ch
DstOf(chs, ch) == EntryOf(chs, ch).dst

\* C16: the destination of a channel entry changes only from empty, and only
\* to the src of an inbound frame that arrived on that channel while it was
\* open and whose dst was accepted; a destination that is not empty, given at
\* add_channel or learned, is changed by no frame and no event, so it changes
\* at most once.
C16_FirstContactBinding ==
  [][\A ch \in Registered(channels) \cap Registered(channels') :
       DstOf(channels', ch) # DstOf(channels, ch) =>
         /\ DstOf(channels, ch) = ""
         /\ last'.op = "FRAME_RECD" /\ last'.ch = ch /\ last'.parsed
         /\ DstOf(channels', ch) = last'.in.src
         /\ EntryOf(channels, ch).is_open
         /\ last'.in.dst = "" \/ last'.in.dst \in LocalIdSet]_vars

\* C16 (reached): a frame of another peer is handled on a channel whose
\* destination was learned from an earlier frame, and the destination stays
C16_Witness ==
  /\ last.op = "FRAME_RECD"
  /\ last.handled
  /\ last.in.src = "peer2"
  /\ DstOf(channels, last.ch) = "peer"
  /\ ~last.bound

\* the last operation was an accepted request for a method that has a handler
RequestForHandler == RequestAccepted /\ ~NoHandlerForMethod

\* C17: for a request with a matching handler the pre-handler, when installed,
\* is invoked; if it returns false the handler is not invoked and the core
\* sends and queues no frame; if it returns true, or none is installed, the
\* matching handler is invoked.
C17_PrehandlerGate ==
  RequestForHandler =>
    /\ last.handled
    /\ last.pre <=> prehandler
    /\ (last.pre /\ ~last.preOk) =>
         last.handler = 0 /\ last.sends = <<>> /\ last.enq = <<>>
    /\ (~last.pre \/ last.preOk) =>
         /\ last.handler # 0
         /\ last.handler = handlers[FindHandler(handlers, last.in.method)].cb
    /\ ris # <<>> /\ ris[Len(ris)].id = last.in.id /\ ris[Len(ris)].ch = last.ch

\* C17 (reached): the pre-handler rejects a request for a method that has a
\* handler
C17_Witness ==
  /\ RequestForHandler
  /\ last.pre
  /\ ~last.preOk
  /\ last.handler = 0

\* C18: the id of every call is not zero and differs from the id of every
\* earlier call, so no two pending requests have the same id.
C18_IdsUniqueNonZero ==
  /\ \A k \in 1..Len(calls) :
       /\ calls[k].id # 0
       /\ \A j \in 1..(k - 1) : calls[j].id # calls[k].id
  /\ \A i, j \in 1..Len(requests) : requests[i].id = requests[j].id => i = j

\* the pending requests as a set; the callback of an entry names its call
Pending(reqs) == {reqs[i] : i \in 1..Len(reqs)}

\* C19: a step adds a pending request only if it is a call with a callback,
\* and then the one entry of that call; a step removes a pending request only
\* if it is an accepted response with the id of the entry, and then that one
\* entry, whose callback it invokes; no other step (CLOSED, the removal of a
\* channel, the purge of the queue, OPEN, FRAME_SENT, a response with another
\* id) removes an entry or invokes a result callback.
C19_PendingLifecycle ==
  [][/\ Pending(requests') \ Pending(requests) # {} =>
          /\ last'.op = "callf"
          /\ ~calls'[Len(calls')].cbNull
          /\ Pending(requests') \ Pending(requests)
               = {[id |-> calls'[Len(calls')].id, cb |-> nframes']}
     /\ Pending(requests) \ Pending(requests') # {} =>
          /\ ResponseAccepted'
          /\ \E r \in Pending(requests) :
               /\ Pending(requests) \ Pending(requests') = {r}
               /\ r.id = last'.in.id
               /\ last'.fired = <<r.cb>>
     /\ last'.fired # <<>> =>
          \E r \in Pending(requests) \ Pending(requests') : last'.fired = <<r.cb>>
     /\ Len(requests') = Cardinality(Pending(requests'))]_vars

\* C19 (reached): a channel that is not persistent closes and the frame of a
\* pending request is purged from the queue; the request stays pending
C19_Witness ==
  /\ last.op = "CLOSED"
  /\ ~last.pers
  /\ last.purged > 0
  /\ requests # <<>>
  /\ \A j \in 1..Len(queue) : queue[j].frame.n # requests[1].cb

\* the offers of the last operation to the transport of channel ch, in order
OffersTo(l, ch) == SelectSeq(l.sends, LAMBDA s : s.ch = ch)

\* whether the transport of ch accepted a frame in the last operation
AcceptedBy(l, ch) == \E i \in 1..Len(l.sends) : l.sends[i].ch = ch /\ l.sends[i].ok

\* whether the entry of ch can take a frame
Idle(chs, ch) == EntryOf(chs, ch).is_open /\ ~EntryOf(chs, ch).is_busy

\* C20: the transport's send_frame is called for an entry only when the entry
\* is open and not busy (an OPEN or FRAME_SENT event first clears the busy flag
\* of its own channel); the entry becomes busy exactly when the transport
\* accepts a frame, after which it is offered no other; when the transport
\* refuses, the entry stays open and not busy and the attempt fails, the frame
\* being queued if that is permitted and dropped otherwise.
C20_SendGate ==
  [][/\ \A ch \in {last'.sends[i].ch : i \in 1..Len(last'.sends)} :
          /\ ch \in Registered(channels) \cap Registered(channels')
          /\ EntryOf(channels', ch).is_open
          /\ \/ Idle(channels, ch)
             \/ last'.op = "OPEN" /\ last'.ch = ch
             \/ last'.op = "FRAME_SENT" /\ last'.ch = ch /\ EntryOf(channels, ch).is_open
          /\ \A i \in 1..Len(OffersTo(last', ch)) :
               OffersTo(last', ch)[i].ok => i = Len(OffersTo(last', ch))
          /\ EntryOf(channels', ch).is_busy <=> AcceptedBy(last', ch)
     /\ \A ch \in Registered(channels) \cap Registered(channels') :
          (~EntryOf(channels, ch).is_busy /\ EntryOf(channels', ch).is_busy)
            => AcceptedBy(last', ch)
     /\ (last'.op \in {"callf", "result", "error"} /\ ~last'.broadcast
           /\ \A i \in 1..Len(last'.sends) : ~last'.sends[i].ok) =>
          /\ last'.result <=> last'.enq # <<>>
          /\ last'.enq = <<>> => \A j \in 1..Len(queue') : queue'[j].frame.n # nframes'
          /\ last'.enq # <<>> => queue'[Len(queue')].frame.n = nframes'
     /\ (last'.op = "callf" /\ last'.broadcast) =>
          /\ last'.result <=> \E ch \in Chans : AcceptedBy(last', ch)
          /\ last'.enq = <<>>]_vars

\* C20 (reached): the transport of an open, idle channel refuses the frame of
\* a call; the frame is queued and the entry stays open and not busy
C20_Witness ==
  /\ last.op = "callf"
  /\ ~last.broadcast
  /\ Len(last.sends) = 1
  /\ ~last.sends[1].ok
  /\ Len(last.enq) = 1
  /\ Idle(channels, last.sends[1].ch)

\* the frames the transports accepted in the operation summarised by l
AcceptedFrames(l) == {l.sends[i].n : i \in {k \in 1..Len(l.sends) : l.sends[k].ok}}

\* the frames the transports were offered in the operation summarised by l
OfferedFrames(l) == {l.sends[i].n : i \in 1..Len(l.sends)}

\* the entry a queue entry is for: the pinned one, else the one its (plain)
\* destination resolves to in the registry chs
TargetOf(chs, qe) == IF qe.ci # NoCh THEN qe.ci ELSE ScanChannels(chs, qe.dst, FALSE)

\* whether channel ch can take a frame once the event of l has marked its own
\* channel: OPEN opens it and both OPEN and FRAME_SENT clear its busy flag
ReadyAfterMark(chs, l, ch) ==
  /\ ch \in Registered(chs)
  /\ IF ch = l.ch THEN l.op = "OPEN" \/ EntryOf(chs, ch).is_open
     ELSE Idle(chs, ch)

\* C21: a drain pass (OPEN, FRAME_SENT) removes from the queue exactly the
\* entries a transport accepted during the pass and leaves the others in their
\* order; an entry is offered to its channel's transport if and only if that
\* channel is registered, open and not busy at its turn, whatever became of
\* the entries before it that are for other channels.
C21_DrainPass ==
  [][last'.op \in {"OPEN", "FRAME_SENT"} =>
       /\ queue' = SelectSeq(queue, LAMBDA e : e.frame.n \notin AcceptedFrames(last'))
       /\ queue_len' = Len(queue')
       /\ OfferedFrames(last') \subseteq {queue[j].frame.n : j \in 1..Len(queue)}
       /\ \A j \in 1..Len(queue) :
            queue[j].frame.n \in OfferedFrames(last') <=>
              /\ ReadyAfterMark(channels, last', TargetOf(channels, queue[j]))
              /\ \A k \in 1..(j - 1) :
                   TargetOf(channels, queue[k]) = TargetOf(channels, queue[j])
                     => queue[k].frame.n \notin AcceptedFrames(last')]_vars

\* C21 (reached): a drain pass sends an entry to one channel while an earlier
\* entry, for a channel that is closed or busy, stays at the head of the queue
C21_Witness ==
  /\ last.op \in {"OPEN", "FRAME_SENT"}
  /\ queue # <<>>
  /\ queue[1].ci # NoCh
  /\ queue[1].frame.n \notin OfferedFrames(last)
  /\ \E i \in 1..Len(last.sends) :
       /\ last.sends[i].ok
       /\ last.sends[i].n > queue[1].frame.n
       /\ last.sends[i].ch # queue[1].ci

\* the entries of the registry a resolution saw whose destination is dst
EntriesUnder(r, dst) == {i \in 1..Len(r.reg) : r.reg[i].dst = dst}

\* the resolutions of plain (not URI) destinations in the operation
\* summarised by l
PlainResolutions(l) ==
  {l.resolved[i] : i \in {k \in 1..Len(l.resolved) : ~l.resolved[k].is_uri}}

\* C22: the resolution of a destination that is not a URI gives, for a
\* destination that is not empty and under which an entry is registered, the
\* first such entry; otherwise, and always for the empty destination, the
\* entry registered under the default destination (the one registered first)
\* if there is one and nothing if there is none; it dials no channel, and an
\* operation that resolves only such destinations leaves the registry's
\* entries and their destinations as they were.
C22_PlainResolution ==
  [][/\ \A r \in PlainResolutions(last') :
          /\ r.dial = "none"
          /\ IF r.dst # "" /\ EntriesUnder(r, r.dst) # {}
             THEN r.ci = r.reg[Min(EntriesUnder(r, r.dst))].ch
             ELSE IF EntriesUnder(r, MG_RPC_DST_DEFAULT) # {}
             THEN r.ci = r.reg[Max(EntriesUnder(r, MG_RPC_DST_DEFAULT))].ch
             ELSE r.ci = NoCh
     /\ (last'.op \in {"callf", "OPEN", "FRAME_SENT"}
           /\ \A i \in 1..Len(last'.resolved) : ~last'.resolved[i].is_uri)
          => /\ RegistryView(channels') = RegistryView(channels)
             /\ last'.connects = {}]_vars

\* C22 (reached): a call to a plain destination under which no channel is
\* registered resolves to the default channel, past a channel registered
\* without destination; and the frame is queued for it
C22_Witness ==
  /\ last.op = "callf"
  /\ Len(last.resolved) = 1
  /\ last.resolved[1].dst = "peer"
  /\ Len(last.resolved[1].reg) = 2
  /\ EntriesUnder(last.resolved[1], "") # {}
  /\ EntriesUnder(last.resolved[1], MG_RPC_DST_DEFAULT) # {}
  /\ last.resolved[1].ci # NoCh
  /\ DstOf(channels, last.resolved[1].ci) = MG_RPC_DST_DEFAULT
  /\ Len(last.enq) = 1

\* the last operation was a call to one destination which is a URI under
\* which, canonicalised, no channel was registered; r is its resolution
UriCall(l, r) ==
  /\ l.op = "callf"
  /\ ~l.broadcast
  /\ l.resolved = <<r>>
  /\ r.is_uri
  /\ \A i \in 1..Len(r.reg) : ~dst_is_equal(r.dst, r.reg[i].dst)

\* the frame of the call, where it is on the queue
QueuedFrames(q, n) == {j \in 1..Len(q) : q[j].frame.n = n}

\* the step registered one entry, for channel ci, at the head of the registry
\* under the canonicalised URI, neither open nor busy, asked its transport to
\* connect, and built the frame without dst; the frame cannot be sent yet and
\* is queued for the new entry, or dropped if the queue is full
DialMade(r) ==
  /\ r.ci # NoCh
  /\ r.ci \notin Registered(channels)
  /\ channels' = <<[ch |-> r.ci, dst |-> canonicalize_dst_uri(r.dst),
                    is_open |-> FALSE, is_busy |-> FALSE]>> \o channels
  /\ last'.connects = {r.ci}
  /\ last'.sends = <<>>
  /\ \A j \in QueuedFrames(queue', nframes') :
       queue'[j].frame.dst = "" /\ queue'[j].ci = r.ci
  /\ QueuedFrames(queue', nframes') = {} => queue_len >= max_queue_length

\* the step registered no entry and resolved the destination to nothing; the
\* frame, built without dst, is queued for no entry or dropped
NothingResolved(r) ==
  /\ r.ci = NoCh
  /\ channels' = channels
  /\ last'.connects = {}
  /\ last'.sends = <<>>
  /\ \A j \in QueuedFrames(queue', nframes') :
       queue'[j].frame.dst = "" /\ queue'[j].ci = NoCh

\* whether a URI destination names a web socket or an HTTP server
WebUri(dst) == mg_parse_uri(dst).scheme \in {"ws", "wss", "http", "https"}

\* C23: a call to a URI with scheme ws, wss, http or https under which no
\* channel is registered creates exactly one channel entry under the
\* canonicalised URI, not open and not busy, requests connect on it and emits
\* the frame without dst; a URI with another scheme creates no channel and
\* resolves to nothing, the default channel included.
C23_DialOnUse ==
  [][\A r \in {last'.resolved[i] : i \in 1..Len(last'.resolved)} :
       UriCall(last', r) =>
         IF WebUri(r.dst) THEN DialMade(r)
         ELSE r.dial = "none" /\ NothingResolved(r)]_vars

\* C23 (amended): as C23 when mg_rpc_channel_ws_out returns a channel; when it
\* returns none, no entry is created, the destination resolves to nothing
\* without falling back to the default channel, and the frame, built without
\* dst, is queued for no entry or dropped.
C23_DialOnUseAmended ==
  [][\A r \in {last'.resolved[i] : i \in 1..Len(last'.resolved)} :
       UriCall(last', r) =>
         IF WebUri(r.dst)
         THEN \/ r.dial = "made" /\ DialMade(r)
              \/ r.dial = "failed" /\ NothingResolved(r)
         ELSE r.dial = "none" /\ NothingResolved(r)]_vars

\* C23 (reached): a call to a ws URI dials a channel while the default channel
\* is open and idle, and the frame is queued for the dialed channel
C23_Witness ==
  /\ last.op = "callf"
  /\ Len(last.resolved) = 1
  /\ last.resolved[1].dial = "made"
  /\ last.connects = {last.resolved[1].ci}
  /\ Len(channels) = 2
  /\ channels[1].dst = "ws://h/"
  /\ channels[2].dst = MG_RPC_DST_DEFAULT
  /\ channels[2].is_open /\ ~channels[2].is_busy
  /\ queue # <<>>
  /\ queue[Len(queue)].ci = channels[1].ch
  /\ queue[Len(queue)].frame.dst = ""

\* the observers were each called once, in list order, with event ev and the
\* destination of the channel, if it has one, and not at all if it has none
NotifiedOnce(l, dst, ev) ==
  /\ Len(l.observed) = (IF dst = "" THEN 0 ELSE Len(observers))
  /\ \A i \in 1..Len(l.observed) :
       /\ l.observed[i].obs = observers[i]
       /\ l.observed[i].ev = ev
       /\ l.observed[i].dst = dst
  /\ \A i, j \in 1..Len(observers) : observers[i] = observers[j] => i = j

\* C24: on OPEN the observers are called after the channel is marked open and
\* the queue is drained: they find it open, busy only with a frame of that
\* drain, and the queue and the transports as the event leaves them; on CLOSED
\* they are called after the channel is marked closed and not busy and before
\* the purge and the removal: they find the entry registered and the queue as
\* it was.  In both events every registered observer is called exactly once if
\* the channel has a destination, and none is called if it has none.
C24_ObserverOrder ==
  [][/\ last'.op = "OPEN" =>
          /\ NotifiedOnce(last', DstOf(channels, last'.ch), "OPEN")
          /\ EntryOf(channels', last'.ch).is_open
          /\ (\E j \in 1..Len(queue) : TargetOf(channels, queue[j]) = last'.ch)
               => OffersTo(last', last'.ch) # <<>>
          /\ \A i \in 1..Len(last'.observed) :
               /\ last'.observed[i].registered
               /\ last'.observed[i].open
               /\ last'.observed[i].busy <=> AcceptedBy(last', last'.ch)
               /\ last'.observed[i].qlen = Len(queue')
               /\ last'.observed[i].offers = Len(last'.sends)
     /\ last'.op = "CLOSED" =>
          /\ NotifiedOnce(last', DstOf(channels, last'.ch), "CLOSED")
          /\ \A i \in 1..Len(last'.observed) :
               /\ last'.observed[i].registered
               /\ ~last'.observed[i].open
               /\ ~last'.observed[i].busy
               /\ last'.observed[i].qlen = Len(queue)
               /\ last'.observed[i].offers = 0
          /\ last'.ch \in Registered(channels') <=> last'.pers
     /\ last'.op \notin {"OPEN", "CLOSED"} => last'.observed = <<>>]_vars

\* C24 (reached): a channel that is not persistent closes with two observers
\* registered, which find its entry registered and the queue still holding
\* the entries that the purge then removes
C24_Witness ==
  /\ last.op = "CLOSED"
  /\ ~last.pers
  /\ Len(last.observed) = 2
  /\ last.observed[1].obs # last.observed[2].obs
  /\ last.purged > 0
  /\ last.observed[1].qlen > Len(queue)
  /\ last.ch \notin Registered(channels)

\* the callbacks of the handlers registered under the method
CallbacksFor(hs, method) ==
  {hs[i].cb : i \in {k \in 1..Len(hs) : hs[k].method = method}}

\* C25: add_handler registers the handler, at the head of the table, whether
\* or not the method has a handler already; a request for a method that has
\* several handlers invokes one handler only, the most recently registered of
\* them (unless the pre-handler rejects the request, in which case none).
C25_HandlerLookup ==
  [][/\ last'.op = "add_handler" =>
          /\ Len(handlers') = Len(handlers) + 1
          /\ SubSeq(handlers', 2, Len(handlers')) = handlers
          /\ \A i \in 1..Len(handlers) : handlers'[1].cb > handlers[i].cb
     /\ RequestForHandler' =>
          /\ handlers' = handlers
          /\ (~last'.pre \/ last'.preOk) =>
               /\ last'.handler \in CallbacksFor(handlers, last'.in.method)
               /\ \A cb \in CallbacksFor(handlers, last'.in.method) : cb <= last'.handler
          /\ (last'.pre /\ ~last'.preOk) => last'.handler = 0
          /\ Len(ris') = Len(ris) + 1]_vars

\* C25 (reached): two handlers are registered under one method and a request
\* for it invokes the second registered
C25_Witness ==
  /\ RequestForHandler
  /\ Len(handlers) = 2
  /\ handlers[1].method = handlers[2].method
  /\ last.handler = handlers[1].cb
  /\ last.handler # handlers[2].cb

\* C26: every queue entry is pinned to no channel entry or to an entry that is
\* in the registry; the entries an observer's call put on the queue during a
\* CLOSED event for the closing channel go with it.
C26_NoDanglingPin ==
  \A j \in 1..Len(queue) : queue[j].ci = NoCh \/ queue[j].ci \in Registered(channels)

\* C26 (reached): during the CLOSED event of a channel that is not persistent
\* an observer calls the peer; the frame is queued for the closing channel and
\* purged with it
C26_Witness ==
  /\ last.op = "CLOSED"
  /\ ~last.pers
  /\ last.observed # <<>>
  /\ Len(last.enq) = 1
  /\ \A j \in 1..Len(queue) : queue[j].frame.n # last.enq[1]
  /\ last.ch \notin Registered(channels)
  /\ last.purged > 0

\* C27: queue_len is the number of entries on the send queue and is not
\* negative; it grows only by the entries an operation puts on the queue and
\* shrinks only by the entries a drain pass sent (OPEN, FRAME_SENT) or the
\* purge of a removed channel dropped (CLOSED).
C27_QueueLen ==
  /\ [](queue_len = Len(queue) /\ queue_len >= 0)
  /\ [][/\ queue_len' > queue_len => last'.enq # <<>>
        /\ queue_len' < queue_len =>
             \/ last'.op \in {"OPEN", "FRAME_SENT"}
                  /\ queue_len - queue_len' = Cardinality(AcceptedFrames(last'))
             \/ last'.op = "CLOSED" /\ ~last'.pers
                  /\ queue_len + Len(last'.enq) - queue_len' = last'.purged
        /\ queue_len' - queue_len <= Len(last'.enq)
        /\ last'.op \in {"callf", "result", "error"} =>
             queue_len' = queue_len + Len(last'.enq)]_vars

\* C27 (reached): the purge of a removed channel drops one entry and leaves
\* another, for a channel still registered, on the queue
C27_Witness ==
  /\ last.op = "CLOSED"
  /\ ~last.pers
  /\ last.purged = 1
  /\ queue_len = 1
  /\ Len(queue) = 1
  /\ queue[1].ci # NoCh

\* the entries of the registry a resolution saw whose destination has the
\* canonical form of the URI resolved
EntriesForUri(r) ==
  {i \in 1..Len(r.reg) :
     /\ mg_parse_uri(r.reg[i].dst).ok
     /\ canonicalize_dst_uri(r.reg[i].dst) = canonicalize_dst_uri(r.dst)}

\* C28: the resolution of a URI, in a call or in a drain pass, dials only if no
\* entry is registered under a destination with the same canonical form, and
\* otherwise returns the first such entry; so, the channels given to
\* mg_rpc_add_channel having plain destinations, no two entries of the
\* registry have the same canonical URI destination.
C28_DialedChannelReuse ==
  /\ [](\A i, j \in 1..Len(channels) :
          (mg_parse_uri(channels[i].dst).ok
             /\ canonicalize_dst_uri(channels[i].dst) = canonicalize_dst_uri(channels[j].dst))
            => i = j)
  /\ [][\A k \in 1..Len(last'.resolved) :
          last'.resolved[k].is_uri =>
            IF EntriesForUri(last'.resolved[k]) # {}
            THEN /\ last'.resolved[k].dial = "none"
                 /\ last'.resolved[k].ci =
                      last'.resolved[k].reg[Min(EntriesForUri(last'.resolved[k]))].ch
            ELSE last'.resolved[k].dial = "made" =>
                   /\ last'.resolved[k].ci \in Registered(channels')
                   /\ DstOf(channels', last'.resolved[k].ci)
                        = canonicalize_dst_uri(last'.resolved[k].dst)]_vars

\* C28 (reached): a call to a URI written otherwise than the canonical form
\* under which an earlier call dialed a channel resolves to that channel, and
\* its frame is queued for it behind the frame of the earlier call
C28_Witness ==
  /\ last.op = "callf"
  /\ Len(last.resolved) = 1
  /\ last.resolved[1].is_uri
  /\ last.resolved[1].dial = "none"
  /\ last.resolved[1].ci \in Registered(channels)
  /\ DstOf(channels, last.resolved[1].ci) # last.resolved[1].dst
  /\ Len(queue) = 2
  /\ queue[1].ci = last.resolved[1].ci
  /\ queue[2].ci = last.resolved[1].ci
  /\ Cardinality({i \in 1..Len(channels) : mg_parse_uri(channels[i].dst).ok}) = 1

\* an event that walks the queue is due on the channel ch: it is closed and
\* its OPEN is to come, or its transport holds a frame and the FRAME_SENT of
\* that frame is to come
DrainDue(chs, ch) == ~EntryOf(chs, ch).is_open \/ inflight[ch] > 0

\* the j-th queue entry waits for a registered channel: it is pinned to the
\* channel's entry, or is pinned to none and has a destination that resolves
\* to it
QueuedFor(j) == TargetOf(channels, queue[j]) \in Registered(channels)

\* C29: on a channel that stays registered, is opened whenever it is closed,
\* whose transport accepts every frame and reports each one sent, every queue
\* entry pinned to the channel or whose destination resolves to it is
\* eventually handed to the transport and removed from the queue.  OPEN and
\* FRAME_SENT being the only events that walk the queue, this needs that one
\* of them is due on the channel for as long as the entry waits: where none is
\* due the program may receive no further event and the entry stays.
C29_QueueProgress ==
  \A j \in 1..Len(queue) :
    QueuedFor(j) => DrainDue(channels, TargetOf(channels, queue[j]))

\* the same for the entries pinned to a channel entry, among them those that
\* survive the CLOSED event of a persistent channel
PinnedProgress ==
  \A j \in 1..Len(queue) :
    queue[j].ci \in Registered(channels) => DrainDue(channels, queue[j].ci)

\* an entry pinned to a persistent channel's entry is on the queue after the
\* channel's CLOSED event
PinnedSurvives ==
  /\ last.op = "CLOSED" /\ last.pers
  /\ \E j \in 1..Len(queue) : queue[j].ci = last.ch

====
